---------------------------- MODULE Spec2Model ----------------------------
(***************************************************************************)
(* The route GET /products/{category}/items/{item_id} of src/main.py.      *)
(*                                                                         *)
(* A request is raw text: two path segments and a query string.  The       *)
(* hosting framework binds the parameters the signature of                 *)
(* read_product_item declares (name, source, type, default), coerces each  *)
(* raw token to the declared type, rejects the request when a coercion     *)
(* fails, and otherwise calls the handler body, which builds the `item`    *)
(* dictionary and returns it.                                              *)
(*                                                                         *)
(* Raw text is a sequence of one-character strings, so that coercion is a  *)
(* computation on characters and not the identity.  A float is the exact   *)
(* decimal num * 10^(-exp), kept apart from the integers.                  *)
(***************************************************************************)
EXTENDS Integers, Sequences, FiniteSets

(* Number of request slots the server handles simultaneously. *)
NumSlots == 2

Slots == 1 .. NumSlots

VARIABLES
    req,    \* req[s]  : the raw request slot s is handling
    pc,     \* pc[s]   : "idle", "received", "bound", "built", "done"
    args,   \* args[s] : the coerced keyword arguments of the invocation
    item,   \* item[s] : the local dictionary `item` of the invocation
    resp,   \* resp[s] : the response of the request
    ran     \* ran[s]  : the handler body has executed for the request

vars == <<req, pc, args, item, resp, ran>>

---------------------------------------------------------------------------
(* Characters and raw tokens *)

Digits == <<"0", "1", "2", "3", "4", "5", "6", "7", "8", "9">>

UpperCase == <<"A", "B", "C", "D", "E", "F", "G", "H", "I", "J", "K", "L", "M",
               "N", "O", "P", "Q", "R", "S", "T", "U", "V", "W", "X", "Y", "Z">>

LowerCase == <<"a", "b", "c", "d", "e", "f", "g", "h", "i", "j", "k", "l", "m",
               "n", "o", "p", "q", "r", "s", "t", "u", "v", "w", "x", "y", "z">>

IsDigit(c) == \E i \in 1 .. Len(Digits) : Digits[i] = c

DigitVal(c) == (CHOOSE i \in 1 .. Len(Digits) : Digits[i] = c) - 1

ToLower(c) ==
    IF \E i \in 1 .. Len(UpperCase) : UpperCase[i] = c
    THEN LowerCase[CHOOSE i \in 1 .. Len(UpperCase) : UpperCase[i] = c]
    ELSE c

LowerToken(tok) == [i \in 1 .. Len(tok) |-> ToLower(tok[i])]

AllDigits(tok) == \A i \in 1 .. Len(tok) : IsDigit(tok[i])

RECURSIVE DigitsVal(_)
DigitsVal(tok) ==
    IF tok = <<>> THEN 0
    ELSE DigitsVal(SubSeq(tok, 1, Len(tok) - 1)) * 10 + DigitVal(tok[Len(tok)])

RECURSIVE Pow10(_)
Pow10(n) == IF n = 0 THEN 1 ELSE 10 * Pow10(n - 1)

HasSign(tok) == tok # <<>> /\ tok[1] \in {"-", "+"}

Unsigned(tok) == IF HasSign(tok) THEN Tail(tok) ELSE tok

SignOf(tok) == IF tok # <<>> /\ tok[1] = "-" THEN -1 ELSE 1

---------------------------------------------------------------------------
(* Coercion of a raw token to a declared type *)

(* int: an optional sign and one or more decimal digits. *)
IsIntToken(tok) == Unsigned(tok) # <<>> /\ AllDigits(Unsigned(tok))

ParseInt(tok) == SignOf(tok) * DigitsVal(Unsigned(tok))

(* bool: the recognised words, in any letter case. *)
TrueTokens == { <<"t", "r", "u", "e">>, <<"1">>, <<"o", "n">>, <<"t">>,
                <<"y">>, <<"y", "e", "s">> }

FalseTokens == { <<"f", "a", "l", "s", "e">>, <<"0">>, <<"o", "f", "f">>, <<"f">>,
                 <<"n">>, <<"n", "o">> }

IsBoolToken(tok) == LowerToken(tok) \in TrueTokens \cup FalseTokens

ParseBool(tok) == LowerToken(tok) \in TrueTokens

(* float: an optional sign, digits, and optionally a point and digits; at   *)
(* least one digit.  Only plain finite decimals are modelled.               *)
PointAt(tok) ==
    IF \E i \in 1 .. Len(tok) : tok[i] = "."
    THEN CHOOSE i \in 1 .. Len(tok) : tok[i] = "." /\ \A j \in 1 .. i - 1 : tok[j] # "."
    ELSE Len(tok) + 1

IntPart(tok) == SubSeq(tok, 1, PointAt(tok) - 1)

FracPart(tok) == SubSeq(tok, PointAt(tok) + 1, Len(tok))

IsFloatToken(tok) ==
    LET u == Unsigned(tok)
    IN  /\ AllDigits(IntPart(u))
        /\ AllDigits(FracPart(u))
        /\ Len(IntPart(u)) + Len(FracPart(u)) > 0

RECURSIVE Normalize(_, _)
Normalize(num, exp) ==
    IF num = 0 THEN [num |-> 0, exp |-> 0]
    ELSE IF exp > 0 /\ num % 10 = 0 THEN Normalize(num \div 10, exp - 1)
    ELSE [num |-> num, exp |-> exp]

ParseFloat(tok) ==
    LET u == Unsigned(tok)
        mag == DigitsVal(IntPart(u)) * Pow10(Len(FracPart(u))) + DigitsVal(FracPart(u))
    IN  Normalize(SignOf(tok) * mag, Len(FracPart(u)))

Float(num, exp) == Normalize(num, exp)

Coercible(type, tok) ==
    CASE type = "str"   -> TRUE
      [] type = "int"   -> IsIntToken(tok)
      [] type = "bool"  -> IsBoolToken(tok)
      [] type = "float" -> IsFloatToken(tok)

Coerce(type, tok) ==
    CASE type = "str"   -> tok
      [] type = "int"   -> ParseInt(tok)
      [] type = "bool"  -> ParseBool(tok)
      [] type = "float" -> ParseFloat(tok)

---------------------------------------------------------------------------
(* The route and the signature of read_product_item *)

(* The placeholders of the path template /products/{category}/items/{item_id}. *)
PathParams == {"category", "item_id"}

(* The parameters the signature declares. *)
ParamNames == {"category", "item_id", "urgent", "discount"}

(* A declared parameter that is no placeholder of the path is a query parameter. *)
QueryParams == ParamNames \ PathParams

(* item_id declared as text: nothing is coerced, nothing can fail. *)
ParamType_item_id_str(name) ==
    CASE name = "category" -> "str"
      [] name = "item_id"  -> "str"
      [] name = "urgent"   -> "bool"
      [] name = "discount" -> "float"

ParamType(name) ==
    CASE name = "category" -> "str"
      [] name = "item_id"  -> "int"
      [] name = "urgent"   -> "bool"
      [] name = "discount" -> "float"

HasDefault(name) == name \in {"urgent", "discount"}

(* urgent: bool = True *)
Default_urgent_true(name) ==
    CASE name = "urgent"   -> TRUE
      [] name = "discount" -> Float(0, 0)

Default(name) ==
    CASE name = "urgent"   -> FALSE
      [] name = "discount" -> Float(0, 0)

(* A request: r.path maps each placeholder to its decoded segment, r.query *)
(* maps each query key the client sent to its raw value.                    *)
Supplied(r, name) ==
    IF name \in PathParams THEN TRUE ELSE name \in DOMAIN r.query

Raw(r, name) ==
    IF name \in PathParams THEN r.path[name] ELSE r.query[name]

ParamOK(r, name) ==
    IF Supplied(r, name)
    THEN Coercible(ParamType(name), Raw(r, name))
    ELSE HasDefault(name)

(* discount also read from the query key discount_applied. *)
ParamValue_alias(r, name) ==
    IF Supplied(r, name)
    THEN Coerce(ParamType(name), Raw(r, name))
    ELSE IF /\ name = "discount"
            /\ "discount_applied" \in DOMAIN r.query
            /\ Coercible("float", r.query["discount_applied"])
         THEN Coerce("float", r.query["discount_applied"])
         ELSE Default(name)

ParamValue(r, name) ==
    IF Supplied(r, name)
    THEN Coerce(ParamType(name), Raw(r, name))
    ELSE Default(name)

Valid(r) == \A name \in ParamNames : ParamOK(r, name)

FailedParams(r) == {name \in ParamNames : ~ParamOK(r, name)}

Kwargs(r) == [name \in ParamNames |-> ParamValue(r, name)]

(* "discount": discount, the key not renamed. *)
read_product_item_key_discount(category, item_id, urgent, discount) ==
    [category |-> category,
     item_id  |-> item_id,
     urgent   |-> urgent,
     discount |-> discount]

(* "category": category.lower() *)
read_product_item_lower(category, item_id, urgent, discount) ==
    [category         |-> LowerToken(category),
     item_id          |-> item_id,
     urgent           |-> urgent,
     discount_applied |-> discount]

(* "discount_applied": 0.0, the argument dropped. *)
read_product_item_no_discount(category, item_id, urgent, discount) ==
    [category         |-> category,
     item_id          |-> item_id,
     urgent           |-> urgent,
     discount_applied |-> Float(0, 0)]

(* "discount_applied": max(0.0, min(discount, 100.0)) *)
read_product_item_clamped(category, item_id, urgent, discount) ==
    [category         |-> category,
     item_id          |-> item_id,
     urgent           |-> urgent,
     discount_applied |-> IF discount.num < 0 THEN Float(0, 0)
                          ELSE IF discount.num > 100 * Pow10(discount.exp) THEN Float(100, 0)
                          ELSE discount]

(* item_id offset by the number of requests being answered: a result that *)
(* reads state outside the invocation.                                     *)
read_product_item_counting(category, item_id, urgent, discount) ==
    [category         |-> category,
     item_id          |-> item_id + Cardinality({t \in Slots : pc[t] = "done"}),
     urgent           |-> urgent,
     discount_applied |-> discount]

(* The handler body: the dictionary `item` built from the four arguments. *)
read_product_item(category, item_id, urgent, discount) ==
    [category         |-> category,
     item_id          |-> item_id,
     urgent           |-> urgent,
     discount_applied |-> discount]

Success(body) == [status |-> 200, body |-> body]

ValidationError(r) == [status |-> 422, body |-> [detail |-> FailedParams(r)]]

---------------------------------------------------------------------------
(* The requests the model sends *)

CategoryTokens ==
    { <<"b", "o", "o", "k", "s">>, <<"4", "2">>, <<" ", "T", "v">> }

ItemIdTokens ==
    { <<"4", "2">>, <<"7">>, <<"-", "3">>, <<"0">>, <<"a", "b", "c">>, <<"1", ".", "5">> }

UrgentTokens ==
    { <<"t", "r", "u", "e">>, <<"F", "a", "l", "s", "e">>, <<"1">>,
      <<"m", "a", "y", "b", "e">> }

DiscountTokens ==
    { <<"1", "5", ".", "5">>, <<"-", "5">>, <<"1", "5", "0">>, <<"0", ".", "0">>,
      <<"a", "b", "c">> }

OtherTokens == { <<"9", ".", "9">>, <<"a", "b", "c">> }

QueryKeys == {"urgent", "discount", "discount_applied"}

QueryTokens(key) ==
    CASE key = "urgent"   -> UrgentTokens
      [] key = "discount" -> DiscountTokens
      [] OTHER            -> OtherTokens

Queries ==
    UNION { {q \in [D -> UrgentTokens \cup DiscountTokens \cup OtherTokens] :
                \A key \in D : q[key] \in QueryTokens(key)} : D \in SUBSET QueryKeys }

Paths == [category : CategoryTokens, item_id : ItemIdTokens]

Requests == [path : Paths, query : Queries]

NoQuery == CHOOSE q \in Queries : DOMAIN q = {}

(* The requests the concurrent specification sends. *)
SomeRequests ==
    { [path  |-> [category |-> <<"b", "o", "o", "k", "s">>, item_id |-> <<"7">>],
       query |-> [key \in {"urgent", "discount"} |->
                     IF key = "urgent" THEN <<"t", "r", "u", "e">>
                                       ELSE <<"1", "5", ".", "5">>]],
      [path  |-> [category |-> <<"b", "o", "o", "k", "s">>, item_id |-> <<"7">>],
       query |-> [key \in {"urgent", "discount"} |->
                     IF key = "urgent" THEN <<"1">>
                                       ELSE <<"1", "5", ".", "5">>]],
      [path  |-> [category |-> <<"4", "2">>, item_id |-> <<"4", "2">>],
       query |-> NoQuery],
      [path  |-> [category |-> <<"4", "2">>, item_id |-> <<"-", "3">>],
       query |-> [key \in {"discount"} |-> <<"-", "5">>]],
      [path  |-> [category |-> <<" ", "T", "v">>, item_id |-> <<"a", "b", "c">>],
       query |-> NoQuery],
      [path  |-> [category |-> <<" ", "T", "v">>, item_id |-> <<"0">>],
       query |-> [key \in {"urgent"} |-> <<"m", "a", "y", "b", "e">>]] }

---------------------------------------------------------------------------
(* The state machine *)

None == [none |-> TRUE]

Init ==
    /\ req  = [s \in Slots |-> None]
    /\ pc   = [s \in Slots |-> "idle"]
    /\ args = [s \in Slots |-> None]
    /\ item = [s \in Slots |-> None]
    /\ resp = [s \in Slots |-> None]
    /\ ran  = [s \in Slots |-> FALSE]

(* The routing layer matches the path template and takes request r. *)
Receive(s, r) ==
    /\ pc[s] = "idle"
    /\ req' = [req EXCEPT ![s] = r]
    /\ pc'  = [pc EXCEPT ![s] = "received"]
    /\ UNCHANGED <<args, item, resp, ran>>

(* A parameter fails coercion: the request is rejected, the body never runs. *)
Reject(s) ==
    /\ pc[s] = "received"
    /\ ~Valid(req[s])
    /\ resp' = [resp EXCEPT ![s] = ValidationError(req[s])]
    /\ pc'   = [pc EXCEPT ![s] = "done"]
    /\ UNCHANGED <<req, args, item, ran>>

(* Every parameter is coerced: the handler is called with the typed values. *)
Dispatch(s) ==
    /\ pc[s] = "received"
    /\ Valid(req[s])
    /\ args' = [args EXCEPT ![s] = Kwargs(req[s])]
    /\ pc'   = [pc EXCEPT ![s] = "bound"]
    /\ UNCHANGED <<req, item, resp, ran>>

(* `item` kept at module level: one dictionary for every invocation. *)
BuildItem_module_level(s) ==
    /\ pc[s] = "bound"
    /\ item' = [t \in Slots |->
                   read_product_item(args[s].category, args[s].item_id,
                                     args[s].urgent, args[s].discount)]
    /\ ran'  = [ran EXCEPT ![s] = TRUE]
    /\ pc'   = [pc EXCEPT ![s] = "built"]
    /\ UNCHANGED <<req, args, resp>>

(* item = {...} *)
BuildItem(s) ==
    /\ pc[s] = "bound"
    /\ item' = [item EXCEPT ![s] =
                   read_product_item(args[s].category, args[s].item_id,
                                     args[s].urgent, args[s].discount)]
    /\ ran'  = [ran EXCEPT ![s] = TRUE]
    /\ pc'   = [pc EXCEPT ![s] = "built"]
    /\ UNCHANGED <<req, args, resp>>

(* The handler raises for a negative discount instead of returning. *)
ReturnItem_rejects_negative(s) ==
    /\ pc[s] = "built"
    /\ resp' = [resp EXCEPT ![s] =
                   IF item[s].discount_applied.num < 0
                   THEN [status |-> 500, body |-> [detail |-> {"discount"}]]
                   ELSE Success(item[s])]
    /\ pc'   = [pc EXCEPT ![s] = "done"]
    /\ UNCHANGED <<req, args, item, ran>>

(* return item *)
ReturnItem(s) ==
    /\ pc[s] = "built"
    /\ resp' = [resp EXCEPT ![s] = Success(item[s])]
    /\ pc'   = [pc EXCEPT ![s] = "done"]
    /\ UNCHANGED <<req, args, item, ran>>

(* The response is sent; nothing of the request outlives it. *)
Complete(s) ==
    /\ pc[s] = "done"
    /\ req'  = [req EXCEPT ![s] = None]
    /\ args' = [args EXCEPT ![s] = None]
    /\ item' = [item EXCEPT ![s] = None]
    /\ resp' = [resp EXCEPT ![s] = None]
    /\ ran'  = [ran EXCEPT ![s] = FALSE]
    /\ pc'   = [pc EXCEPT ![s] = "idle"]

Step(s) ==
    \/ Reject(s)
    \/ Dispatch(s)
    \/ BuildItem(s)
    \/ ReturnItem(s)
    \/ Complete(s)

(* One request at a time, over every request of Requests. *)
Next ==
    \/ \E r \in Requests : Receive(1, r)
    \/ Step(1)

Spec == Init /\ [][Next]_vars

(* Simultaneous requests, in any interleaving. *)
NextConc ==
    \/ \E s \in Slots : \E r \in SomeRequests : Receive(s, r)
    \/ \E s \in Slots : Step(s)

SpecConc == Init /\ [][NextConc]_vars

---------------------------------------------------------------------------
(* Vocabulary of the properties *)

Done(s) == pc[s] = "done"

Succeeded(s) == pc[s] = "done" /\ resp[s].status = 200

ItemKeys == {"category", "item_id", "urgent", "discount_applied"}

Sent(s, key) == key \in DOMAIN req[s].query

(* The raw tokens of the model that are no integer, no boolean, no number. *)
NonIntTokens == { <<"a", "b", "c">>, <<"1", ".", "5">> }

NonBoolTokens == { <<"m", "a", "y", "b", "e">> }

NonFloatTokens == { <<"a", "b", "c">> }

CoercionFails(r) ==
    \/ r.path.item_id \in NonIntTokens
    \/ "urgent" \in DOMAIN r.query /\ r.query.urgent \in NonBoolTokens
    \/ "discount" \in DOMAIN r.query /\ r.query.discount \in NonFloatTokens

(* C1: every success response carries a mapping with exactly the four keys *)
(* category, item_id, urgent and discount_applied; there is no key named   *)
(* discount, whatever the request supplied.                                 *)
C1_ExactlyFourKeys ==
    \A s \in Slots :
        /\ pc[s] = "built" => DOMAIN item[s] = ItemKeys
        /\ Succeeded(s) =>
              /\ DOMAIN resp[s].body = ItemKeys
              /\ Cardinality(DOMAIN resp[s].body) = 4
              /\ "discount" \notin DOMAIN resp[s].body

C1_Witness ==
    \E s \in Slots :
        /\ Succeeded(s)
        /\ Sent(s, "discount") /\ Sent(s, "urgent")
        /\ DOMAIN resp[s].body = ItemKeys

(* C2: the response's category is the decoded category segment, character  *)
(* for character (no case change, no trimming, a numeric-looking category   *)
(* stays text), and the response's item_id is the integer the item_id       *)
(* segment denotes, whichever query parameters are supplied.                *)
C2_PathSegmentsPreserved ==
    \A s \in Slots :
        Succeeded(s) =>
            /\ resp[s].body.category = req[s].path.category
            /\ resp[s].body.category \in CategoryTokens
            /\ resp[s].body.item_id = ParseInt(req[s].path.item_id)
            /\ (req[s].path.item_id = <<"4", "2">> => resp[s].body.item_id = 42)
            /\ (req[s].path.item_id = <<"7">>      => resp[s].body.item_id = 7)
            /\ (req[s].path.item_id = <<"-", "3">> => resp[s].body.item_id = -3)
            /\ (req[s].path.item_id = <<"0">>      => resp[s].body.item_id = 0)

C2_Witness ==
    \E s \in Slots :
        /\ Succeeded(s)
        /\ req[s].path.category = <<" ", "T", "v">>
        /\ resp[s].body.category = <<" ", "T", "v">>
        /\ resp[s].body.item_id = 42
        /\ DOMAIN req[s].query = QueryKeys

(* C3: a request that omits urgent is answered with urgent = false, and a  *)
(* request that omits discount with discount_applied = 0.0; each default    *)
(* applies whether or not the other query parameter is supplied.            *)
C3_Defaults ==
    \A s \in Slots :
        Succeeded(s) =>
            /\ (~Sent(s, "urgent")   => resp[s].body.urgent = FALSE)
            /\ (~Sent(s, "discount") => resp[s].body.discount_applied = [num |-> 0, exp |-> 0])
            /\ (req[s] = [path  |-> [category |-> <<"b", "o", "o", "k", "s">>,
                                     item_id  |-> <<"4", "2">>],
                          query |-> NoQuery]
                  => resp[s].body = [category         |-> <<"b", "o", "o", "k", "s">>,
                                     item_id          |-> 42,
                                     urgent           |-> FALSE,
                                     discount_applied |-> [num |-> 0, exp |-> 0]])

C3_Witness ==
    \E s \in Slots :
        /\ Succeeded(s)
        /\ ~Sent(s, "urgent") /\ Sent(s, "discount")
        /\ resp[s].body.urgent = FALSE
        /\ resp[s].body.discount_applied = [num |-> 155, exp |-> 1]

(* C4: a request that supplies urgent and discount is answered with the     *)
(* coerced urgent under urgent and the coerced discount under               *)
(* discount_applied and under no other key; the two are never swapped nor   *)
(* replaced by their defaults.                                              *)
C4_SuppliedValuesReturned ==
    \A s \in Slots :
        Succeeded(s) /\ Sent(s, "urgent") /\ Sent(s, "discount") =>
            /\ resp[s].body.urgent = ParseBool(req[s].query.urgent)
            /\ resp[s].body.urgent \in BOOLEAN
            /\ resp[s].body.discount_applied = ParseFloat(req[s].query.discount)
            /\ DOMAIN resp[s].body \cap {"discount", "discount_applied"} = {"discount_applied"}
            /\ (req[s].query.urgent = <<"t", "r", "u", "e">> => resp[s].body.urgent = TRUE)
            /\ (req[s].query.urgent = <<"F", "a", "l", "s", "e">> => resp[s].body.urgent = FALSE)
            /\ (req[s].query.discount = <<"1", "5", ".", "5">>
                  => resp[s].body.discount_applied = [num |-> 155, exp |-> 1])
            /\ (req[s].query.discount = <<"-", "5">>
                  => resp[s].body.discount_applied = [num |-> -5, exp |-> 0])

C4_Witness ==
    \E s \in Slots :
        /\ Succeeded(s)
        /\ req[s].path = [category |-> <<"b", "o", "o", "k", "s">>, item_id |-> <<"7">>]
        /\ Sent(s, "urgent") /\ req[s].query.urgent = <<"t", "r", "u", "e">>
        /\ Sent(s, "discount") /\ req[s].query.discount = <<"1", "5", ".", "5">>
        /\ resp[s].body = [category         |-> <<"b", "o", "o", "k", "s">>,
                           item_id          |-> 7,
                           urgent           |-> TRUE,
                           discount_applied |-> [num |-> 155, exp |-> 1]]

(* C5: a request with a parameter that fails coercion is rejected with a   *)
(* client-error response and the handler body never executes for it, even  *)
(* when every other parameter is valid; it never gets a success mapping.    *)
C5_CoercionFailureRejected ==
    \A s \in Slots :
        pc[s] # "idle" /\ CoercionFails(req[s]) =>
            /\ ~ran[s]
            /\ pc[s] \in {"received", "done"}
            /\ args[s] = None /\ item[s] = None
            /\ (Done(s) => resp[s].status \in 400 .. 499 /\ resp[s].status # 200)
            /\ (Done(s) => DOMAIN resp[s].body # ItemKeys)

C5_Witness ==
    \E s \in Slots :
        /\ Done(s)
        /\ req[s].path.item_id = <<"a", "b", "c">>
        /\ Sent(s, "urgent") /\ req[s].query.urgent = <<"t", "r", "u", "e">>
        /\ Sent(s, "discount") /\ req[s].query.discount = <<"1", "5", ".", "5">>
        /\ resp[s].status = 422
        /\ ~ran[s]

(* C6: no transformation, clamping or business rule: a negative discount   *)
(* and a discount above 100 are accepted and returned unchanged under       *)
(* discount_applied, and a negative or zero item_id is returned unchanged.  *)
C6_ValuesUnchanged ==
    \A s \in Slots :
        /\ Succeeded(s) =>
              /\ resp[s].body.discount_applied = args[s].discount
              /\ resp[s].body.item_id = args[s].item_id
              /\ resp[s].body.urgent = args[s].urgent
              /\ resp[s].body.category = args[s].category
        /\ Done(s) /\ ~CoercionFails(req[s]) =>
              /\ resp[s].status = 200
              /\ (Sent(s, "discount") /\ req[s].query.discount = <<"-", "5">>
                    => resp[s].body.discount_applied = [num |-> -5, exp |-> 0])
              /\ (Sent(s, "discount") /\ req[s].query.discount = <<"1", "5", "0">>
                    => resp[s].body.discount_applied = [num |-> 150, exp |-> 0])
              /\ (req[s].path.item_id = <<"-", "3">> => resp[s].body.item_id = -3)
              /\ (req[s].path.item_id = <<"0">> => resp[s].body.item_id = 0)

C6_Witness ==
    \E s \in Slots :
        /\ Succeeded(s)
        /\ req[s].path.item_id = <<"-", "3">>
        /\ Sent(s, "discount") /\ req[s].query.discount = <<"-", "5">>
        /\ resp[s].body.item_id = -3
        /\ resp[s].body.discount_applied = [num |-> -5, exp |-> 0]

(* The response the route gives to request r when nothing interferes. *)
Answer(r) ==
    IF Valid(r)
    THEN Success([category         |-> Kwargs(r).category,
                  item_id          |-> Kwargs(r).item_id,
                  urgent           |-> Kwargs(r).urgent,
                  discount_applied |-> Kwargs(r).discount])
    ELSE ValidationError(r)

OwnStateOnly(s) ==
    /\ pc[s] = "idle" =>
          req[s] = None /\ args[s] = None /\ item[s] = None /\ resp[s] = None /\ ~ran[s]
    /\ pc[s] \in {"received", "bound"} => item[s] = None /\ resp[s] = None
    /\ pc[s] = "built" => resp[s] = None /\ Success(item[s]) = Answer(req[s])
    /\ pc[s] = "done" => resp[s] = Answer(req[s])

Untouched(s) ==
    pc'[s] = pc[s] =>
        /\ req'[s] = req[s]
        /\ args'[s] = args[s]
        /\ item'[s] = item[s]
        /\ resp'[s] = resp[s]
        /\ ran'[s] = ran[s]

(* C7: simultaneous requests are independent, in every interleaving: each  *)
(* response is built from its own request's four parameters only, a step of *)
(* one request changes nothing of another, and nothing of a request is left *)
(* once it has been answered.                                               *)
C7_Independent ==
    /\ [](\A s \in Slots : OwnStateOnly(s))
    /\ [][\A s \in Slots : Untouched(s)]_vars

C7_Witness ==
    \E s \in Slots : \E t \in Slots :
        /\ s # t
        /\ Succeeded(s) /\ pc[t] = "built"
        /\ req[s] # req[t]
        /\ resp[s].body # item[t]
        /\ resp[s] = Answer(req[s])

(* C8: two invocations with identical coerced inputs give identical output *)
(* mappings, however they are ordered among the other requests.             *)
C8_Deterministic ==
    \A s \in Slots : \A t \in Slots :
        /\ pc[s] \in {"built", "done"} /\ pc[t] \in {"built", "done"}
        /\ Valid(req[s]) /\ Valid(req[t])
        /\ args[s] = args[t]
        => /\ item[s] = item[t]
           /\ (Done(s) /\ Done(t) => resp[s] = resp[t])

C8_Witness ==
    \E s \in Slots : \E t \in Slots :
        /\ s # t
        /\ Succeeded(s) /\ Succeeded(t)
        /\ req[s] # req[t]
        /\ args[s] = args[t]
        /\ resp[s].body = resp[t].body

Restrict(r) ==
    [path  |-> r.path,
     query |-> [key \in DOMAIN r.query \cap {"urgent", "discount"} |-> r.query[key]]]

(* C10: the response depends only on the two path segments and the query    *)
(* parameters urgent and discount; any other query parameter is ignored,    *)
(* and discount_applied in the query is not read as the discount.           *)
C10_OtherQueryIgnored ==
    \A s \in Slots :
        Done(s) =>
            /\ resp[s] = Answer(Restrict(req[s]))
            /\ (Sent(s, "discount_applied") /\ ~CoercionFails(req[s]) => resp[s].status = 200)
            /\ (Succeeded(s) /\ Sent(s, "discount_applied") /\ ~Sent(s, "discount")
                  => resp[s].body.discount_applied = [num |-> 0, exp |-> 0])

C10_Witness ==
    \E s \in Slots :
        /\ Succeeded(s)
        /\ Sent(s, "discount_applied") /\ ~Sent(s, "discount")
        /\ req[s].query["discount_applied"] = <<"9", ".", "9">>
        /\ resp[s].body.discount_applied = [num |-> 0, exp |-> 0]

===========================================================================
